---- MODULE Spec2Model ----
(***************************************************************************)
(* Model of src/app.py: a Streamlit script that, on a form submission with *)
(* a prompt and an API key, calls a chat-completion client once for each   *)
(* of four fixed variations, collects the four outcomes in a list and      *)
(* displays them in four panels.                                           *)
(*                                                                         *)
(* Python values are tagged records so that a str and None never compare   *)
(* equal: PyStr(s) is the str s, PyNone is None.  Texts are TLA+ strings;  *)
(* a leading non-ASCII glyph of a user-visible message (the emoji in front *)
(* of st.warning / st.success texts) cannot be written in a TLA+ string    *)
(* and is left out of the text, the rest is verbatim.                      *)
(*                                                                         *)
(* shown records the elements whose presence or content depends on the     *)
(* run: the warnings, the error, the heading, code and preview of each     *)
(* panel and the success banner.  Static elements (CSS, title,             *)
(* description, form, subheader, containers, next steps, footer) are not   *)
(* recorded.  A stop or rerun request of the user ends a run at a          *)
(* Streamlit call; at a call that is not recorded it leaves the same       *)
(* recorded elements as at the next recorded one, so the script is cut     *)
(* into steps at the recorded calls, at the blocking request and at the    *)
(* pause.                                                                  *)
(***************************************************************************)
EXTENDS Integers, Sequences, FiniteSets, TLC

VARIABLES
    groq_api_key,   \* app.py:44  value of os.getenv("GROQ_API_KEY")
    user_prompt,    \* app.py:94  value of the text area (session state)
    submit_button,  \* app.py:101 TRUE iff this run was caused by a submit
    pc,             \* position of the script run
    i,              \* app.py:116 loop index of the orchestration loop
    results,        \* app.py:115 the accumulation list
    calls,          \* app.py:118 calls of generate_web_app made in this run
    requests,       \* app.py:70  requests sent by client.chat.completions.create in this run
    responses,      \* what the OpenAI client did in each call that has returned
    shown           \* recorded elements written to the page in this run

vars == <<groq_api_key, user_prompt, submit_button, pc, i, results, calls,
          requests, responses, shown>>

-----------------------------------------------------------------------------
(* Bounds *)

MaxPromptLen == 1

Alphabet == {"a", " "}

RECURSIVE Texts(_)
Texts(n) ==
    IF n = 0 THEN {""}
    ELSE LET S == Texts(n - 1) IN S \cup {s \o c : s \in S, c \in Alphabet}

\* texts a user can type in the text area
Prompts == Texts(MaxPromptLen)

\* how many times generate_web_app is called in a row when it is called on
\* its own, outside the loop
MaxDirectCalls == 2

-----------------------------------------------------------------------------
(* Python values *)

PyNone == [type |-> "NoneType"]

PyStr(s) == [type |-> "str", val |-> s]

IsStr(v) == v.type = "str"

\* Python truth value of a str-or-None value
Truthy(v) == IsStr(v) /\ v.val # ""

\* s.startswith(prefix)
StartsWith(s, prefix) ==
    Len(s) >= Len(prefix) /\ SubSeq(s, 1, Len(prefix)) = prefix

\* values os.getenv can give: unset, set to the empty string, set to a key
Keys == {PyNone, PyStr(""), PyStr("gsk_test")}

-----------------------------------------------------------------------------
(* generate_web_app *)

Indent == "        "

WrapperOpening ==
    "Create a simple, self-contained web application based on this prompt: \n"
    \o Indent

WrapperMiddle == " \n" \o Indent

WrapperRemainder ==
    "\n" \o Indent \o "\n" \o Indent
    \o "The code should be complete and runnable as a single HTML file.\n" \o Indent
    \o "Focus on creating a working prototype that demonstrates the core functionality.\n" \o Indent
    \o "Use modern web technologies and best practices.\n" \o Indent
    \o "Include all necessary CSS and JavaScript directly in the HTML file.\n" \o Indent
    \o "Make sure all functionality works when rendered in an iframe.\n" \o Indent
    \o "Keep the code concise but include helpful comments.\n" \o Indent
    \o "Return ONLY the code without explanations.\n" \o Indent

\* a plausible slip: the two placeholders of the template exchanged
full_prompt_swapped(prompt, variation_prompt) ==
    WrapperOpening \o variation_prompt \o WrapperMiddle \o prompt
        \o WrapperRemainder

\* a plausible slip: the template also names the number of the call (an
\* "app 1", "app 2", ... taken from a counter), so that it no longer depends
\* on its two arguments alone
full_prompt_numbered(prompt, variation_prompt) ==
    WrapperOpening \o prompt \o " (app "
        \o (IF Len(calls) < 4 THEN <<"1", "2", "3", "4">>[Len(calls) + 1] ELSE "n")
        \o ")" \o WrapperMiddle \o variation_prompt \o WrapperRemainder

\* the f-string of generate_web_app
full_prompt(prompt, variation_prompt) ==
    WrapperOpening \o prompt \o WrapperMiddle \o variation_prompt
        \o WrapperRemainder

\* the request generate_web_app hands to client.chat.completions.create
Request(prompt, variation_prompt) ==
    [model    |-> "mixtral-8x7b-32768",
     temperature |-> "0.7",
     max_tokens  |-> 2048,
     role     |-> "user",
     content  |-> full_prompt(prompt, variation_prompt),
     prompt   |-> prompt,
     variation |-> variation_prompt]

\* What client.chat.completions.create can do with a request when it returns
\* control: return a response whose first choice has text, has no text
\* (content is None), return a response with no choices, or raise.
Responses ==
    { [kind |-> "response", choices |-> <<PyStr("<h1>A</h1>")>>],
      [kind |-> "response", choices |-> <<PyNone>>],
      [kind |-> "response", choices |-> << >>],
      [kind |-> "raise", msg |-> "Connection error."] }

\* The construction of the client (lines 52-55) is inside the try as well and
\* can raise before any request is sent.
ClientErrors ==
    { [kind |-> "raise",
       msg |-> "Client.__init__() got an unexpected keyword argument 'proxies'"] }

\* the call did not yield a completion: an exception reaches the except clause
Failed(resp) ==
    resp.kind = "raise" \/ (resp.kind = "response" /\ Len(resp.choices) = 0)

\* str(e) of the exception that reaches the except clause
ExceptionText(resp) ==
    IF resp.kind = "raise" THEN resp.msg ELSE "list index out of range"

ErrorPrefix == "Error generating code: "

\* a plausible slip: another wording of the error text
generate_web_app_reworded(resp) ==
    IF Failed(resp)
    THEN PyStr("Error: " \o ExceptionText(resp))
    ELSE resp.choices[1]

\* value generate_web_app returns when the client did resp
generate_web_app(resp) ==
    IF Failed(resp)
    THEN PyStr(ErrorPrefix \o ExceptionText(resp))
    ELSE resp.choices[1]

-----------------------------------------------------------------------------
(* the script *)

variations ==
    << "",
       "Make it visually appealing and use a different framework than the other versions.",
       "Focus on simplicity and performance. Use minimal dependencies.",
       "Add some creative features that might not be explicitly mentioned in the prompt." >>

PanelTitles ==
    << "### App 1 - Standard Version",
       "### App 2 - Visual Focus",
       "### App 3 - Minimalist Version",
       "### App 4 - Creative Approach" >>

KeyWarning ==
    [kind |-> "warning",
     text |-> "GROQ_API_KEY environment variable not found. Please set it to use this app."]

KeyError ==
    [kind |-> "error",
     text |-> "Please set your GROQ_API_KEY environment variable to use this app."]

PromptWarning ==
    [kind |-> "warning",
     text |-> "Please enter a prompt to generate web applications."]

SuccessBanner ==
    [kind |-> "success", text |-> "All applications generated successfully!"]

\* one cell of the 2x2 grid: its heading (line 129), st.code(results[k])
\* (line 131) and components.html(results[k]) (line 135)
PanelElements(k, res) ==
    << [kind |-> "heading", slot |-> k, text |-> PanelTitles[k]],
       [kind |-> "code", slot |-> k, body |-> res[k]],
       [kind |-> "html", slot |-> k, body |-> res[k]] >>

AllPanels(res) ==
    PanelElements(1, res) \o PanelElements(2, res) \o PanelElements(3, res)
        \o PanelElements(4, res)

\* lines 44-46: the load-time warning
LoadTime(key) == IF Truthy(key) THEN << >> ELSE <<KeyWarning>>

\* a plausible slip: the success banner only when no slot holds an error text
DisplayIfClean(res) ==
    AllPanels(res) \o
    (IF \E k \in 1..Len(res) : IsStr(res[k]) /\ StartsWith(res[k].val, ErrorPrefix)
     THEN << >> ELSE <<SuccessBanner>>)

\* lines 122-173
Display(res) == AllPanels(res) \o <<SuccessBanner>>

\* lines 9 and 44: every run loads .env again and reads the variable again.
\* load_dotenv() does not replace a variable the environment already has, so
\* a set variable keeps its value and an unset one may have got one since.
EnvAfterLoad(key) == IF key = PyNone THEN Keys ELSE {key}

Init ==
    /\ groq_api_key \in Keys
    /\ user_prompt = ""
    /\ submit_button = FALSE
    /\ pc = "idle"
    /\ i = 0
    /\ results = << >>
    /\ calls = << >>
    /\ requests = << >>
    /\ responses = << >>
    /\ shown = << >>

\* a plausible slip: the guard forgets the API key
QualifiesWithoutKey(submitted, text, key) == submitted /\ text # ""

\* a plausible slip: the guard forgets the prompt
QualifiesWithoutPrompt(submitted, text, key) == submitted /\ Truthy(key)

\* line 104
Qualifies(submitted, text, key) == submitted /\ text # "" /\ Truthy(key)

\* a plausible slip: the two elif branches in the other order
RejectionPromptFirst(submitted, text, key) ==
    IF submitted /\ text = "" THEN <<PromptWarning>>
    ELSE IF submitted /\ ~Truthy(key) THEN <<KeyError>>
    ELSE << >>

\* lines 180-183: what a run that makes no call tells the user
Rejection(submitted, text, key) ==
    IF submitted /\ ~Truthy(key) THEN <<KeyError>>
    ELSE IF submitted /\ text = "" THEN <<PromptWarning>>
    ELSE << >>

\* the recorded elements the script has written when it leaves the part it
\* is in: lines 9-101 ("head"), lines 180-187 ("tail"), lines 122-187
\* ("display")
Plan ==
    IF pc = "head" THEN LoadTime(groq_api_key)
    ELSE IF pc = "tail"
    THEN LoadTime(groq_api_key)
            \o Rejection(submit_button, user_prompt, groq_api_key)
    ELSE IF pc = "display" THEN LoadTime(groq_api_key) \o Display(results)
    ELSE shown

\* lines 9-44: a script run starts (page load, rerun or form submit) once the
\* run before it has ended.  key is what os.getenv gives in this run.  The
\* text area sits in a form: its value changes only with a submit.
RunScript(submitted, typed, key) ==
    /\ pc \in {"idle", "done", "stopped"}
    /\ key \in EnvAfterLoad(groq_api_key)
    /\ groq_api_key' = key
    /\ user_prompt' = IF submitted THEN typed ELSE user_prompt
    /\ submit_button' = submitted
    /\ i' = 0
    /\ results' = << >>
    /\ calls' = << >>
    /\ requests' = << >>
    /\ responses' = << >>
    /\ shown' = << >>
    /\ pc' = "head"

\* the next recorded Streamlit call of the part the script is in (line 46,
\* 129, 131, 135, 173, 181 or 183) writes its element
Emit ==
    /\ pc \in {"head", "tail", "display"}
    /\ Len(shown) < Len(Plan)
    /\ shown' = Append(shown, Plan[Len(shown) + 1])
    /\ UNCHANGED <<groq_api_key, user_prompt, submit_button, pc, i, results,
                   calls, requests, responses>>

\* lines 82-105: the form is drawn and the guard of line 104 sends the script
\* into the loop or on to the elif branches
Branch ==
    /\ pc = "head"
    /\ Len(shown) = Len(Plan)
    /\ pc' = IF Qualifies(submit_button, user_prompt, groq_api_key)
             THEN "loop" ELSE "tail"
    /\ UNCHANGED <<groq_api_key, user_prompt, submit_button, i, results,
                   calls, requests, responses, shown>>

\* lines 175-187: after the last recorded element the script runs to its end
Finish ==
    /\ pc \in {"tail", "display"}
    /\ Len(shown) = Len(Plan)
    /\ pc' = "done"
    /\ UNCHANGED <<groq_api_key, user_prompt, submit_button, i, results,
                   calls, requests, responses, shown>>

\* a plausible slip: the next call is made without waiting for the last one
CanIssueEager ==
    pc \in {"loop", "calling", "hung"} /\ Len(calls) < Len(variations)

\* the loop is at line 118, about to call generate_web_app
CanIssue == pc = "loop"

\* the arguments of the call of line 118
Invocation(prompt, variation_prompt) ==
    [prompt |-> prompt, variation |-> variation_prompt]

\* a plausible slip: the list is built by inserting at the front
CollectFront(res, app_code) == <<app_code>> \o res

\* line 119
Collect(res, app_code) == Append(res, app_code)

\* line 118, lines 52-75: generate_web_app is called with variation i, builds
\* the client and the instruction and sends the request
IssueCall ==
    /\ CanIssue
    /\ calls' = Append(calls, Invocation(user_prompt, variations[i + 1]))
    /\ requests' = Append(requests, Request(user_prompt, variations[i + 1]))
    /\ pc' = "calling"
    /\ UNCHANGED <<groq_api_key, user_prompt, submit_button, i, results,
                   responses, shown>>

\* line 118, lines 52-55 and 78-79, line 119: generate_web_app is called with
\* variation i and the construction of the client raises inside the try: no
\* request is sent, the error text is returned and appended, and the script
\* is in the pause of line 120
ClientFails(resp) ==
    /\ CanIssue
    /\ calls' = Append(calls, Invocation(user_prompt, variations[i + 1]))
    /\ results' = Collect(results, generate_web_app(resp))
    /\ responses' = Append(responses, resp)
    /\ pc' = "sleeping"
    /\ UNCHANGED <<groq_api_key, user_prompt, submit_button, i, requests,
                   shown>>

\* lines 70-79 and 119: the request in flight returns control, the value
\* generate_web_app returns is appended, and the script is in the pause of
\* line 120
CallReturns(resp) ==
    /\ pc = "calling"
    /\ results' = Collect(results, generate_web_app(resp))
    /\ responses' = Append(responses, resp)
    /\ pc' = "sleeping"
    /\ UNCHANGED <<groq_api_key, user_prompt, submit_button, i, calls,
                   requests, shown>>

\* line 70: the request in flight never returns (no timeout is set)
CallHangs ==
    /\ pc = "calling"
    /\ pc' = "hung"
    /\ UNCHANGED <<groq_api_key, user_prompt, submit_button, i, results,
                   calls, requests, responses, shown>>

\* line 120 ends: the loop takes the next variation (line 116), or, after the
\* last one, the script goes on to the display (line 122)
PauseEnds ==
    /\ pc = "sleeping"
    /\ IF i + 1 < Len(variations)
       THEN i' = i + 1 /\ pc' = "loop"
       ELSE i' = i /\ pc' = "display"
    /\ UNCHANGED <<groq_api_key, user_prompt, submit_button, results, calls,
                   requests, responses, shown>>

\* a stop or rerun request of the user reaches the script at its next
\* Streamlit call and ends the run there: nothing more is called or written.
\* The script makes no Streamlit call while it waits in a request.
StopRun ==
    /\ pc \in {"head", "tail", "loop", "sleeping", "display"}
    /\ pc' = "stopped"
    /\ UNCHANGED <<groq_api_key, user_prompt, submit_button, i, results,
                   calls, requests, responses, shown>>

Next ==
    \/ \E submitted \in BOOLEAN, typed \in Prompts, key \in Keys :
          RunScript(submitted, typed, key)
    \/ Emit
    \/ Branch
    \/ Finish
    \/ IssueCall
    \/ \E resp \in ClientErrors : ClientFails(resp)
    \/ \E resp \in Responses : CallReturns(resp)
    \/ CallHangs
    \/ PauseEnds
    \/ StopRun

Spec == Init /\ [][Next]_vars

-----------------------------------------------------------------------------
(* generate_web_app on its own *)

\* the variation suffixes generate_web_app is given: its default "" and the
\* fixed ones of the loop
Suffixes == {variations[k] : k \in 1..Len(variations)}

\* the prompts generate_web_app is given when it is called on its own: the
\* empty one and a non-empty one
DirectPrompts == {"", "a"}

\* the calls of generate_web_app follow one another: the next one is made
\* when the one before is back
Returned == Len(responses) = Len(calls)

\* lines 48-70: generate_web_app is called with any prompt and any suffix,
\* builds the client and its instruction and hands the request to the client
DirectCall(prompt, variation_prompt) ==
    /\ Returned
    /\ Len(calls) < MaxDirectCalls
    /\ calls' = Append(calls, Invocation(prompt, variation_prompt))
    /\ requests' = Append(requests, Request(prompt, variation_prompt))
    /\ UNCHANGED <<groq_api_key, user_prompt, submit_button, pc, i, results,
                   responses, shown>>

\* lines 48-55 and 78-79: generate_web_app is called and the construction of
\* the client raises inside the try: no request is sent and the call is back
\* with generate_web_app(resp), the error text
DirectClientFails(prompt, variation_prompt, resp) ==
    /\ Returned
    /\ Len(calls) < MaxDirectCalls
    /\ calls' = Append(calls, Invocation(prompt, variation_prompt))
    /\ responses' = Append(responses, resp)
    /\ UNCHANGED <<groq_api_key, user_prompt, submit_button, pc, i, results,
                   requests, shown>>

\* lines 70-79: the request in flight returns control and the call is back
\* with generate_web_app(resp)
DirectReturns(resp) ==
    /\ ~Returned
    /\ responses' = Append(responses, resp)
    /\ UNCHANGED <<groq_api_key, user_prompt, submit_button, pc, i, results,
                   calls, requests, shown>>

NextDirect ==
    \/ \E prompt \in DirectPrompts, variation_prompt \in Suffixes :
          DirectCall(prompt, variation_prompt)
    \/ \E prompt \in DirectPrompts, variation_prompt \in Suffixes, resp \in ClientErrors :
          DirectClientFails(prompt, variation_prompt, resp)
    \/ \E resp \in Responses : DirectReturns(resp)

\* generate_web_app applied to inputs drawn from DirectPrompts and Suffixes
SpecDirect == Init /\ [][NextDirect]_vars

-----------------------------------------------------------------------------
(* Properties *)

Range(seq) == {seq[k] : k \in 1..Len(seq)}

\* this run was a submission with a non-empty prompt and a present API key
Qualifying == submit_button /\ user_prompt # "" /\ Truthy(groq_api_key)

\* the run is in the loop or past it
InOrPastLoop == pc \in {"loop", "calling", "hung", "sleeping", "display"}

\* the panel elements on the page
Panels == {e \in Range(shown) : e.kind \in {"heading", "code", "html"}}

\* the twelve elements of the four panels for the results collected
FourPanels ==
    { [kind |-> "heading", slot |-> k, text |-> PanelTitles[k]] : k \in 1..4 }
    \cup { [kind |-> "code", slot |-> k, body |-> results[k]] : k \in 1..4 }
    \cup { [kind |-> "html", slot |-> k, body |-> results[k]] : k \in 1..4 }

FailedSlots == {k \in 1..Len(responses) : Failed(responses[k])}

\* C1: a submission with a non-empty prompt and a present API key that runs
\* to its end has exactly four results, each of them a string, however many
\* calls failed.
C1_FourResultStrings ==
    (pc = "done" /\ Qualifying) =>
        (Len(results) = 4 /\ \A k \in 1..4 : IsStr(results[k]))

\* C2: a failed call puts a string that begins with "Error generating code: "
\* into its own slot; the loop goes on to make all four calls, and every
\* other slot holds what its own call gave.
C2_FailureStaysInItsSlot ==
    /\ \A k \in FailedSlots :
          /\ Len(results) >= k
          /\ IsStr(results[k])
          /\ StartsWith(results[k].val, ErrorPrefix)
    /\ \A k \in (1..Len(responses)) \ FailedSlots :
          results[k] = responses[k].choices[1]
    /\ (pc \in {"display", "done"} /\ Qualifying) =>
          /\ Len(calls) = 4
          /\ Len(responses) = 4

\* C2 witness: a finished run in which exactly the second call failed (a
\* response without choices) and the other three slots hold the text returned
C2_Witness ==
    /\ pc = "done"
    /\ FailedSlots = {2}
    /\ responses[2].kind = "response"
    /\ results[2] = PyStr("Error generating code: list index out of range")
    /\ \A k \in {1, 3, 4} : results[k] = PyStr("<h1>A</h1>")

\* C3: submitted without an API key (unset or empty): no completion call is
\* made at any point of the run, whatever the prompt, and a run that reaches
\* its end has shown the missing-key error.
C3_NoKeyNoCall ==
    (submit_button /\ ~Truthy(groq_api_key)) =>
        /\ calls = << >>
        /\ requests = << >>
        /\ ~InOrPastLoop
        /\ (pc = "done") => (KeyError \in Range(shown))

\* C3 witness: a submission of a non-empty prompt with the key set to ""
C3_Witness ==
    /\ submit_button
    /\ groq_api_key = PyStr("")
    /\ user_prompt # ""
    /\ pc = "done"
    /\ KeyError \in Range(shown)

\* C4: with an empty prompt no completion call is made in the run, submitted
\* or not, key present or not.
C4_EmptyPromptNoCall ==
    (user_prompt = "") =>
        (calls = << >> /\ requests = << >> /\ ~InOrPastLoop)

\* C4 witness: an empty prompt submitted with the key present
C4_Witness ==
    /\ submit_button
    /\ user_prompt = ""
    /\ Truthy(groq_api_key)
    /\ pc = "done"
    /\ calls = << >>

\* C5 as stated: every submission with an empty prompt shows the empty-prompt
\* warning, with the API key present or absent.
C5_EmptyPromptAlwaysWarned ==
    (pc = "done" /\ submit_button /\ user_prompt = "") =>
        PromptWarning \in Range(shown)

\* C5 amended: a submission with an empty prompt shows the empty-prompt
\* warning when the API key is present; when the key is absent it shows the
\* missing-key error and not the empty-prompt warning.
C5_EmptyPromptWarnedWithKey ==
    /\ (pc = "done" /\ submit_button /\ user_prompt = "") =>
          IF Truthy(groq_api_key)
          THEN PromptWarning \in Range(shown) /\ KeyError \notin Range(shown)
          ELSE KeyError \in Range(shown) /\ PromptWarning \notin Range(shown)
    /\ (PromptWarning \in Range(shown)) =>
          (submit_button /\ user_prompt = "" /\ Truthy(groq_api_key))

\* C5 witness: an empty prompt submitted with the key present, warning shown
C5_Witness ==
    /\ pc = "done"
    /\ submit_button
    /\ user_prompt = ""
    /\ Truthy(groq_api_key)
    /\ shown = <<PromptWarning>>

\* C6: whatever the completion client did, generate_web_app gave a string:
\* every collected result is a string.
C6_AlwaysAString == \A k \in 1..Len(results) : IsStr(results[k])

\* each call of generate_web_app made so far carries the variation of its
\* position, each slot holds the outcome of the call of its position, and a
\* request was sent for no other variation than those called
SlotsMatchCalls ==
    /\ Len(calls) <= 4
    /\ \A k \in 1..Len(calls) :
          /\ calls[k].variation = variations[k]
          /\ calls[k].prompt = user_prompt
    /\ Len(requests) <= Len(calls)
    /\ \A r \in Range(requests) :
          \E k \in 1..Len(calls) :
             r.prompt = calls[k].prompt /\ r.variation = calls[k].variation
    /\ Len(results) = Len(responses)
    /\ \A k \in 1..Len(results) : results[k] = generate_web_app(responses[k])
    /\ (pc \in {"display", "done"} /\ Qualifying) =>
          (Len(calls) = 4 /\ Len(results) = 4)

\* a step inside a run leaves the calls made and the slots written as they are
SlotsKept ==
    (pc \in {"loop", "calling", "sleeping", "display"}) =>
        /\ Len(results') >= Len(results)
        /\ SubSeq(results', 1, Len(results)) = results
        /\ Len(calls') >= Len(calls)
        /\ SubSeq(calls', 1, Len(calls)) = calls

\* C7: a qualifying submission whose loop runs to its end calls
\* generate_web_app (the completion client of the specification) exactly four
\* times, one per variation in declaration order; slot k holds the outcome of
\* the call made with variation k; within a run a slot once written is not
\* written again.
C7_FourCallsInOrder == []SlotsMatchCalls /\ [][SlotsKept]_vars

\* C7 witness: a finished qualifying run whose four calls had four different
\* outcomes
C7_Witness ==
    /\ pc = "done"
    /\ Qualifying
    /\ Len(calls) = 4
    /\ Cardinality(Range(responses)) = 4
    /\ Cardinality(Range(results)) = 4

\* the instruction is the wrapper opening, then the prompt, then (after the
\* prompt) the variation, then the wrapper remainder up to the end
InOrder(c) ==
    LET s == c.content
        a == Len(WrapperOpening) + 1
        b == Len(s) - Len(WrapperRemainder) - Len(c.variation) + 1
    IN  /\ StartsWith(s, WrapperOpening)
        /\ SubSeq(s, a, a + Len(c.prompt) - 1) = c.prompt
        /\ b >= a + Len(c.prompt)
        /\ SubSeq(s, b, b + Len(c.variation) - 1) = c.variation
        /\ SubSeq(s, b + Len(c.variation), Len(s)) = WrapperRemainder

\* the calls that got as far as sending a request: those still in flight and
\* those that came back with anything but a failure to build the client
Sending == {j \in 1..Len(calls) :
               j > Len(responses) \/ responses[j] \notin ClientErrors}

\* the call that sent the k-th request
SenderOf(k) ==
    CHOOSE j \in Sending : Cardinality({m \in Sending : m <= j}) = k

\* C8: for every prompt and every variation suffix, the instruction
\* generate_web_app sends holds the wrapper opening, the prompt, the
\* variation and the wrapper remainder in that order; and whenever it is
\* called again with the same prompt and variation, whatever was called and
\* whatever came back in between, it sends the identical instruction.
C8_InstructionInOrder ==
    /\ Len(requests) = Cardinality(Sending)
    /\ \A k \in 1..Len(requests) :
          /\ requests[k].prompt = calls[SenderOf(k)].prompt
          /\ requests[k].variation = calls[SenderOf(k)].variation
          /\ InOrder(requests[k])
    /\ \A j, k \in 1..Len(requests) :
          (calls[SenderOf(j)] = calls[SenderOf(k)])
              => (requests[j].content = requests[k].content)

\* C8 witness: generate_web_app called twice with the same non-empty prompt
\* and the same non-empty variation, both instructions sent, the first call
\* back before the second was made
C8_Witness ==
    /\ Len(requests) >= 2
    /\ Len(responses) >= 1
    /\ calls[SenderOf(1)] = calls[SenderOf(2)]
    /\ calls[SenderOf(1)].prompt # ""
    /\ calls[SenderOf(1)].variation = variations[2]
    /\ requests[1].content = requests[2].content
    /\ InOrder(requests[2])

\* calls of generate_web_app made and not yet returned
InFlight == Len(calls) - Len(responses)

OneInFlight ==
    /\ InFlight \in {0, 1}
    /\ (InFlight = 1) <=> (pc \in {"calling", "hung"})
    /\ (pc = "hung") => (Panels = {})

\* a call is made only when all earlier ones have returned, and never after a hang
SentAfterReturn ==
    /\ (Len(calls') > Len(calls)) => (Len(responses) = Len(calls))
    /\ (pc = "hung") => (calls' = calls /\ shown' = shown)

\* C9: at most one call is in flight; a call is made only when every earlier
\* one has returned; once a call hangs no further call is made and no result
\* is displayed.
C9_Sequential == []OneInFlight /\ [][SentAfterReturn]_vars

\* C9 witness: the second call hangs after the first has returned
C9_Witness ==
    /\ pc = "hung"
    /\ Len(calls) = 2
    /\ Len(results) = 1

\* C10: a run that reaches its end has shown the four panels and the success
\* banner exactly when it was a submission with a non-empty prompt and a
\* present key, however many of the four results are error texts.  No other
\* run shows a panel or the banner, a panel shown is a panel of the four
\* results, and the banner comes only after all four panels.
C10_BannerIffQualifying ==
    /\ (pc = "done" /\ Qualifying) =>
          (SuccessBanner \in Range(shown) /\ Panels = FourPanels)
    /\ (SuccessBanner \in Range(shown) \/ Panels # {}) =>
          (Qualifying /\ Len(results) = 4 /\ Panels \subseteq FourPanels)
    /\ (SuccessBanner \in Range(shown)) => (Panels = FourPanels)

\* C10 witness: all four calls failed (one of them before its request was
\* sent) and the run ended with the panels and the banner shown
C10_Witness ==
    /\ pc = "done"
    /\ FailedSlots = 1..4
    /\ Len(requests) = 3
    /\ SuccessBanner \in Range(shown)
    /\ Cardinality(Panels) = 12

====
